---- MODULE Spec2Model ----
(***************************************************************************)
(* Model of app.py: the ETL function load_data (workbook -> master table,  *)
(* detail table, inventory table, warnings) and the demand-vs-supply       *)
(* balance that main() computes from its results.                          *)
(*                                                                         *)
(* Text is a sequence of one-character strings, so that substring tests,   *)
(* case folding, trimming and the regex replace are computed as the code   *)
(* computes them.  A spreadsheet cell is a record [t, s, n]: t = "str"     *)
(* (text s), "int" (whole number n) or "nan" (blank).  A DataFrame is a    *)
(* record [cols, dtypes, data]: column labels, column dtypes and rows.     *)
(***************************************************************************)
EXTENDS Integers, Sequences, FiniteSets, TLC

VARIABLES xls, pc, sop_sheet, found_sop, sop_header, df_sop, df_orders_detail,
          df_stock_total, df_inventory, logs, ret, df_risk, tab4

vars == <<xls, pc, sop_sheet, found_sop, sop_header, df_sop, df_orders_detail,
          df_stock_total, df_inventory, logs, ret, df_risk, tab4>>

\* Python's None, where the code returns an index or None
None == -1

(***************************************************************************)
(* Text                                                                    *)
(***************************************************************************)
UpperChars == <<"A","B","C","D","E","F","G","H","I","J","K","L","M",
                "N","O","P","Q","R","S","T","U","V","W","X","Y","Z">>
LowerChars == <<"a","b","c","d","e","f","g","h","i","j","k","l","m",
                "n","o","p","q","r","s","t","u","v","w","x","y","z">>

\* Position of a capital (small) letter in the alphabet
UpperIndex ==
    [c \in {UpperChars[i] : i \in 1..Len(UpperChars)} |->
        CHOOSE i \in 1..Len(UpperChars) : UpperChars[i] = c]

LowerIndex ==
    [c \in {LowerChars[i] : i \in 1..Len(LowerChars)} |->
        CHOOSE i \in 1..Len(LowerChars) : LowerChars[i] = c]

\* str.lower() on one character
LowerChar(c) == IF c \in DOMAIN UpperIndex THEN LowerChars[UpperIndex[c]] ELSE c

\* str.upper() on one character
UpperChar(c) == IF c \in DOMAIN LowerIndex THEN UpperChars[LowerIndex[c]] ELSE c

Lower(s) == [i \in 1..Len(s) |-> LowerChar(s[i])]
Upper(s) == [i \in 1..Len(s) |-> UpperChar(s[i])]

\* Python's `sub in s`
Contains(sub, s) ==
    \E i \in 1..(Len(s) - Len(sub) + 1) : SubSeq(s, i, i + Len(sub) - 1) = sub

EndsWith(s, suf) ==
    /\ Len(s) >= Len(suf)
    /\ SubSeq(s, Len(s) - Len(suf) + 1, Len(s)) = suf

\* str.strip(): leading and trailing blanks removed
Strip(s) ==
    IF \A i \in 1..Len(s) : s[i] = " " THEN <<>>
    ELSE LET a == CHOOSE i \in 1..Len(s) :
                      s[i] # " " /\ \A j \in 1..(i - 1) : s[j] = " "
             b == CHOOSE i \in 1..Len(s) :
                      s[i] # " " /\ \A j \in (i + 1)..Len(s) : s[j] = " "
         IN  SubSeq(s, a, b)

DigitChars == <<"0","1","2","3","4","5","6","7","8","9">>

\* str(n) for a non-negative whole number
RECURSIVE Digits(_)
Digits(n) ==
    IF n < 10 THEN <<DigitChars[n + 1]>>
    ELSE Digits(n \div 10) \o <<DigitChars[(n % 10) + 1]>>

IsDigit(c) == \E i \in 1..Len(DigitChars) : DigitChars[i] = c

DigitVal(c) == (CHOOSE i \in 1..Len(DigitChars) : DigitChars[i] = c) - 1

RECURSIVE DigitsVal(_)
DigitsVal(s) ==
    IF s = <<>> THEN 0
    ELSE 10 * DigitsVal(SubSeq(s, 1, Len(s) - 1)) + DigitVal(s[Len(s)])

AllDigits(s) == s # <<>> /\ \A i \in 1..Len(s) : IsDigit(s[i])

(***************************************************************************)
(* Cells, columns, DataFrames                                              *)
(***************************************************************************)
StrCell(s) == [t |-> "str", s |-> s, n |-> 0]
IntCell(n) == [t |-> "int", s |-> <<>>, n |-> n]
FloatCell(n) == [t |-> "float", s |-> <<>>, n |-> n]
NaN == [t |-> "nan", s |-> <<>>, n |-> 0]

\* The dtype pandas infers for a column: whole numbers only -> int64,
\* numbers with blanks -> float64, anything with text -> object.
ColDtype(cells) ==
    IF cells = <<>> THEN "object"
    ELSE IF \A i \in 1..Len(cells) : cells[i].t = "int" THEN "int64"
    ELSE IF \A i \in 1..Len(cells) : cells[i].t \in {"int", "float", "nan"}
         THEN "float64"
    ELSE "object"

\* A whole number held in a float64 column is held as a float.
Retype(c, dtype) ==
    IF dtype = "float64" /\ c.t = "int" THEN FloatCell(c.n) ELSE c

\* str(v) of one cell: a float prints with the ".0" artifact.
AsStr(c) ==
    IF c.t = "str" THEN c.s
    ELSE IF c.t = "nan" THEN <<"n","a","n">>
    ELSE IF c.t = "float" THEN Digits(c.n) \o <<".","0">>
    ELSE Digits(c.n)

\* pd.to_numeric(errors='coerce').fillna(0) on one cell
ToNumeric(c) ==
    IF c.t \in {"int", "float"} THEN c.n
    ELSE IF c.t = "nan" THEN 0
    ELSE LET s == Strip(c.s)
         IN  IF AllDigits(s) THEN DigitsVal(s)
             ELSE IF EndsWith(s, <<".","0">>) /\ AllDigits(SubSeq(s, 1, Len(s) - 2))
                  THEN DigitsVal(SubSeq(s, 1, Len(s) - 2))
             ELSE 0

EmptyDF == [cols |-> <<>>, dtypes |-> <<>>, data |-> <<>>]

Column(rows, k) == [i \in 1..Len(rows) |-> rows[i][k]]

\* Positions of the columns carrying a label
Positions(df, label) == {k \in 1..Len(df.cols) : df.cols[k] = label}

HasCol(df, label) == Positions(df, label) # {}

\* df[label] is a Series only when the label is unique; with a duplicated
\* label it is a DataFrame and the Series-only calls on it raise.
IsSeries(df, label) == Cardinality(Positions(df, label)) = 1

Pos(df, label) == CHOOSE k \in 1..Len(df.cols) : df.cols[k] = label

\* next((c for c in df.columns if P(c)), None), as a position (0 for None);
\* match[k] tells whether P holds of the k-th label
FirstCol(match) ==
    LET hits == SelectSeq([k \in 1..Len(match) |-> k], LAMBDA k : match[k])
    IN  IF hits = <<>> THEN 0 ELSE hits[1]

\* The column labels of df
Labels(df) == df.cols

\* df.rename(columns={old: new})
Rename(df, old, new) ==
    [df EXCEPT !.cols = [k \in 1..Len(df.cols) |->
                            IF df.cols[k] = old THEN new ELSE df.cols[k]]]

\* df[label] = cells: overwrites the column when present, appends otherwise
SetCol(df, label, cells, dtype) ==
    IF HasCol(df, label)
    THEN [df EXCEPT
            !.dtypes = [k \in 1..Len(df.cols) |->
                          IF df.cols[k] = label THEN dtype ELSE df.dtypes[k]],
            !.data = [i \in 1..Len(df.data) |->
                        [k \in 1..Len(df.cols) |->
                           IF df.cols[k] = label THEN cells[i] ELSE df.data[i][k]]]]
    ELSE [cols |-> Append(df.cols, label),
          dtypes |-> Append(df.dtypes, dtype),
          data |-> [i \in 1..Len(df.data) |-> Append(df.data[i], cells[i])]]

\* df.drop(columns=[label])
RECURSIVE DropAt(_, _)
DropAt(s, ks) ==
    IF s = <<>> THEN <<>>
    ELSE LET rest == DropAt(SubSeq(s, 1, Len(s) - 1), ks)
         IN  IF Len(s) \in ks THEN rest ELSE Append(rest, s[Len(s)])

DropCol(df, label) ==
    LET ks == Positions(df, label)
    IN  [cols |-> DropAt(df.cols, ks),
         dtypes |-> DropAt(df.dtypes, ks),
         data |-> [i \in 1..Len(df.data) |-> DropAt(df.data[i], ks)]]

\* df[mask]: the positions at which the boolean mask holds, in order
SelectIdx(mask) == SelectSeq([i \in 1..Len(mask) |-> i], LAMBDA i : mask[i])

(***************************************************************************)
(* pandas.read_excel                                                       *)
(***************************************************************************)
\* The label of header cell k (1-based): a blank header cell is named
\* "Unnamed: <k-1>"; a repeated label gets the suffix ".<occurrence>".
RawLabel(row, k) ==
    IF row[k].t = "nan"
    THEN <<"U","n","n","a","m","e","d",":"," ">> \o Digits(k - 1)
    ELSE AsStr(row[k])

MangledLabel(row, k) ==
    LET m == Cardinality({j \in 1..(k - 1) : RawLabel(row, j) = RawLabel(row, k)})
    IN  IF m = 0 THEN RawLabel(row, k)
        ELSE RawLabel(row, k) \o <<".">> \o Digits(m)

\* pd.read_excel(xls, sheet, header=h) followed by
\* df.columns = df.columns.astype(str).str.strip().
\* rows: the sheet's rows, first row at offset 0.  A sheet without rows
\* gives an empty frame; a header offset at or past the last row raises.
ReadExcel(rows, h) ==
    IF rows = <<>> THEN [raised |-> FALSE, df |-> EmptyDF]
    ELSE IF Len(rows) <= h THEN [raised |-> TRUE, df |-> EmptyDF]
    ELSE LET hdr == rows[h + 1]
             body == SubSeq(rows, h + 2, Len(rows))
             dts == [k \in 1..Len(hdr) |-> ColDtype(Column(body, k))]
         IN  [raised |-> FALSE,
              df |-> [cols |-> [k \in 1..Len(hdr) |-> Strip(MangledLabel(hdr, k))],
                      dtypes |-> dts,
                      data |-> [i \in 1..Len(body) |->
                                  [k \in 1..Len(hdr) |-> Retype(body[i][k], dts[k])]]]]

\* Faulty variant: the preview read without nrows
PreviewUncapped(rows, n) == rows

\* pd.read_excel(xls, sheet, header=None, nrows=n): the first n raw rows
Preview(rows, n) == SubSeq(rows, 1, IF Len(rows) < n THEN Len(rows) ELSE n)

(***************************************************************************)
(* find_header_idx                                                         *)
(***************************************************************************)
\* all(any(k in x for x in row_str) for k in keywords), row_str the
\* lower-cased stringified cells of the row
RowMatches(row, keywords) ==
    \A q \in 1..Len(keywords) :
        \E k \in 1..Len(row) : Contains(keywords[q], Lower(AsStr(row[k])))

\* Index (from 0) of the first matching row of the preview, or None
find_header_idx(df_preview, keywords) ==
    LET hits == SelectSeq([i \in 1..Len(df_preview) |-> i],
                          LAMBDA i : RowMatches(df_preview[i], keywords))
    IN  IF hits = <<>> THEN None ELSE hits[1] - 1

(***************************************************************************)
(* Identifier canonicalization                                             *)
(***************************************************************************)
\* Faulty variant: .str.rstrip('.0') in place of the anchored regex
RECURSIVE CanonRstrip(_)
CanonRstrip(s) ==
    IF s # <<>> /\ s[Len(s)] \in {".", "0"}
    THEN CanonRstrip(SubSeq(s, 1, Len(s) - 1))
    ELSE s

\* .str.replace(r'\.0$', '', regex=True): one trailing ".0" is removed
Canon(s) ==
    IF EndsWith(s, <<".","0">>) THEN SubSeq(s, 1, Len(s) - 2) ELSE s

\* df[mask]: the rows at which the boolean mask holds, in order
FilterRows(df, mask) ==
    LET idx == SelectIdx(mask)
    IN  [df EXCEPT !.data = [j \in 1..Len(idx) |-> df.data[idx[j]]]]

\* df[src]: the cells of one column, top to bottom
Series(df, src) == [i \in 1..Len(df.data) |-> df.data[i][Pos(df, src)]]

\* .astype(str).str.replace(r'\.0$', '', regex=True) on a column
CanonSeries(cells) == [i \in 1..Len(cells) |-> StrCell(Canon(AsStr(cells[i])))]

\* pd.to_numeric(column, errors='coerce').fillna(0)
NumericSeries(cells) == [i \in 1..Len(cells) |-> IntCell(ToNumeric(cells[i]))]

\* df[label] = v (a scalar, broadcast to every row)
SetConst(df, label, v, dtype) ==
    SetCol(df, label, [i \in 1..Len(df.data) |-> v], dtype)

(***************************************************************************)
(* load_data, part 1: the S&OP (master) sheet                              *)
(***************************************************************************)
L_Order_ID == <<"O","r","d","e","r","_","I","D">>
L_Status == <<"S","t","a","t","u","s">>
L_Pallets == <<"P","a","l","l","e","t","s">>
L_Total_Qty == <<"T","o","t","a","l","_","Q","t","y">>
L_Product_Code == <<"P","r","o","d","u","c","t","_","C","o","d","e">>
L_Quantity == <<"Q","u","a","n","t","i","t","y">>
L_Stock_Qty == <<"S","t","o","c","k","_","Q","t","y">>
L_Location == <<"L","o","c","a","t","i","o","n">>

\* nrows of the master preview, and the header offset used when
\* find_header_idx returns None
MasterPreviewRows == 15
MasterFallback == 1

\* "S&OP" in s or "Meeting" in s
IsSopName(s) ==
    \/ Contains(<<"S","&","O","P">>, s)
    \/ Contains(<<"M","e","e","t","i","n","g">>, s)

\* next((s for s in sheet_names if P(s)), None), as a position (0 for None);
\* match[k] tells whether P holds of the k-th sheet name
FirstSheet(match) ==
    LET hits == SelectSeq([k \in 1..Len(match) |-> k], LAMBDA k : match[k])
    IN  IF hits = <<>> THEN 0 ELSE hits[1]

\* The identifiers the cleanup treats as template rows
Placeholders ==
    { <<"i","n","p","u","t">>,
      <<"f","o","r","m","u","l","a">>,
      <<"n","a","n">>,
      <<"o","r","d","e","r"," ","n","u","m","b","e","r">> }

\* Faulty variant: the comparison without .str.lower()
IsPlaceholderCaseSensitive(s) == s \in Placeholders

\* .astype(str).str.lower().isin([...])
IsPlaceholder(s) == Lower(s) \in Placeholders

\* The "Cleanup Rows" block: placeholder rows out, blank identifiers out,
\* identifiers stringified and canonicalized.
CleanupRows(df) ==
    LET ip == Pos(df, L_Order_ID)
        df1 == FilterRows(df, [i \in 1..Len(df.data) |->
                                 ~IsPlaceholder(AsStr(df.data[i][ip]))])
        df2 == FilterRows(df1, [i \in 1..Len(df1.data) |->
                                  df1.data[i][ip].t # "nan"])
    IN  SetCol(df2, L_Order_ID, CanonSeries(Series(df2, L_Order_ID)), "object")

\* .fillna('Unknown').astype(str).str.upper().str.strip()
NormStatus(c) ==
    StrCell(Strip(Upper(IF c.t = "nan" THEN <<"U","n","k","n","o","w","n">>
                        ELSE AsStr(c))))

\* The "Status & Pallets Normalization" block; raises when df['Status'] or
\* df[pallet_col] is not a single column.
StatusAndPallets(df) ==
    LET df1 == IF HasCol(df, L_Status) THEN df
               ELSE SetConst(df, L_Status,
                             StrCell(<<"U","N","K","N","O","W","N">>), "object")
    IN  IF ~IsSeries(df1, L_Status) THEN [raised |-> TRUE, df |-> EmptyDF]
        ELSE LET st == Series(df1, L_Status)
                 df2 == SetCol(df1, L_Status,
                               [i \in 1..Len(st) |-> NormStatus(st[i])], "object")
                 pk == FirstCol([k \in 1..Len(Labels(df2)) |->
                          Contains(<<"p","a","l","l","e","t">>, Lower(Labels(df2)[k]))])
             IN  IF pk = 0
                 THEN [raised |-> FALSE,
                       df |-> SetConst(df2, L_Pallets, IntCell(0), "int64")]
                 ELSE IF ~IsSeries(df2, df2.cols[pk])
                 THEN [raised |-> TRUE, df |-> EmptyDF]
                 ELSE [raised |-> FALSE,
                       df |-> SetCol(df2, L_Pallets,
                                     NumericSeries(Series(df2, df2.cols[pk])),
                                     "float64")]

\* Lines 47-75 on the rows of the master sheet.  The modelled sheets carry
\* no column whose label contains "date", so the date loop converts nothing.
LoadSop(rows) ==
    LET found == find_header_idx(Preview(rows, MasterPreviewRows),
                                 << <<"s","t","a","t","u","s">>,
                                    <<"c","o","u","n","t","r","y">> >>)
        h == IF found = None THEN MasterFallback ELSE found
        rd == ReadExcel(rows, h)
        fail == [raised |-> TRUE, found |-> found, header |-> h, df |-> EmptyDF]
    IN  IF rd.raised \/ rd.df.cols = <<>> THEN fail
        ELSE LET pk == FirstCol([k \in 1..Len(Labels(rd.df)) |->
                          Contains(<<"P","r","o","f","o","r","m","a">>, Labels(rd.df)[k])])
                 sop_id_col == IF pk = 0 THEN rd.df.cols[1] ELSE rd.df.cols[pk]
                 df1 == Rename(rd.df, sop_id_col, L_Order_ID)
             IN  IF ~IsSeries(df1, L_Order_ID) THEN fail
                 ELSE LET sp == StatusAndPallets(CleanupRows(df1))
                      IN  IF sp.raised THEN fail
                          ELSE [raised |-> FALSE, found |-> found,
                                header |-> h, df |-> sp.df]

(***************************************************************************)
(* groupby(key)[val].sum().reset_index() and the merges                    *)
(***************************************************************************)
RECURSIVE SumSeq(_)
SumSeq(q) == IF q = <<>> THEN 0 ELSE SumSeq(SubSeq(q, 1, Len(q) - 1)) + q[Len(q)]

\* Faulty variant: the first value of the group in place of its sum
GroupSumFirst(df, kp, vp, key) ==
    df.data[CHOOSE i \in 1..Len(df.data) :
               /\ df.data[i][kp] = key
               /\ \A j \in 1..(i - 1) : df.data[j][kp] # key][vp].n

\* Sum of column vp over the rows whose column kp holds the key
GroupSum(df, kp, vp, key) ==
    SumSeq([i \in 1..Len(df.data) |->
               IF df.data[i][kp] = key THEN df.data[i][vp].n ELSE 0])

\* One row (key, sum) per distinct non-blank key.  pandas orders the groups
\* by key; the rows are kept here in order of first occurrence.
GroupBySum(df, key, val) ==
    LET kp == Pos(df, key)
        vp == Pos(df, val)
        firsts == SelectIdx([i \in 1..Len(df.data) |->
                     /\ df.data[i][kp].t # "nan"
                     /\ \A j \in 1..(i - 1) : df.data[j][kp] # df.data[i][kp]])
    IN  [cols |-> <<key, val>>,
         dtypes |-> <<df.dtypes[kp], "float64">>,
         data |-> [g \in 1..Len(firsts) |->
                     << df.data[firsts[g]][kp],
                        IntCell(GroupSum(df, kp, vp, df.data[firsts[g]][kp])) >>]]

\* The rows a left row contributes to pd.merge(left, right, how='left'):
\* one per matching right row, or one with a blank when nothing matches.
LeftRows(row, lp, right) ==
    LET m == SelectIdx([g \in 1..Len(right.data) |-> right.data[g][1] = row[lp]])
    IN  IF m = <<>> THEN << Append(row, NaN) >>
        ELSE [j \in 1..Len(m) |-> Append(row, right.data[m[j]][2])]

RECURSIVE LeftJoin(_, _, _)
LeftJoin(rows, lp, right) ==
    IF rows = <<>> THEN <<>>
    ELSE LeftJoin(SubSeq(rows, 1, Len(rows) - 1), lp, right)
           \o LeftRows(rows[Len(rows)], lp, right)

\* .fillna(0) on one cell
FillNa0(c) == IF c.t = "nan" THEN IntCell(0) ELSE c

\* The "MERGE QTY TO S&OP" block (lines 117-122)
MergeQty(sop, detail) ==
    LET df_agg == Rename(GroupBySum(detail, L_Order_ID, L_Quantity),
                         L_Quantity, L_Total_Qty)
        s1 == IF HasCol(sop, L_Total_Qty) THEN DropCol(sop, L_Total_Qty) ELSE sop
        merged == [cols |-> Append(s1.cols, L_Total_Qty),
                   dtypes |-> Append(s1.dtypes, "float64"),
                   data |-> LeftJoin(s1.data, Pos(s1, L_Order_ID), df_agg)]
        tq == Series(merged, L_Total_Qty)
    IN  SetCol(merged, L_Total_Qty, [i \in 1..Len(tq) |-> FillNa0(tq[i])], "float64")

(***************************************************************************)
(* load_data, part 2: the Orders (detail) sheet                            *)
(***************************************************************************)
OrdersPreviewRows == 30
OrdersFallback == 20

\* s.strip() == "Orders"
IsOrdersName(s) == Strip(s) = <<"O","r","d","e","r","s">>

IsOrderNumberLabel(c) ==
    /\ Contains(<<"o","r","d","e","r">>, Lower(c))
    /\ Contains(<<"n","u","m","b","e","r">>, Lower(c))

\* any(x in c.lower() for x in ['finished product', 'article no', 'sku'])
IsProductCodeLabel(c) ==
    \/ Contains(<<"f","i","n","i","s","h","e","d"," ","p","r","o","d","u","c","t">>, Lower(c))
    \/ Contains(<<"a","r","t","i","c","l","e"," ","n","o">>, Lower(c))
    \/ Contains(<<"s","k","u">>, Lower(c))

\* 'product' in c.lower() and 'description' not in c.lower()
IsGenericProductLabel(c) ==
    /\ Contains(<<"p","r","o","d","u","c","t">>, Lower(c))
    /\ ~Contains(<<"d","e","s","c","r","i","p","t","i","o","n">>, Lower(c))

IsQuantityLabel(c) == Contains(<<"q","u","a","n","t","i","t","y">>, Lower(c))

\* Lines 97-107: the product-code column is renamed, or synthesized
IdentifyProduct(df) ==
    LET k1 == FirstCol([k \in 1..Len(Labels(df)) |-> IsProductCodeLabel(Labels(df)[k])])
        k2 == FirstCol([k \in 1..Len(Labels(df)) |-> IsGenericProductLabel(Labels(df)[k])])
    IN  IF k1 # 0 THEN Rename(df, df.cols[k1], L_Product_Code)
        ELSE IF k2 # 0 THEN Rename(df, df.cols[k2], L_Product_Code)
        ELSE SetConst(df, L_Product_Code,
                      StrCell(<<"U","n","k","n","o","w","n","_",
                                "P","r","o","d","u","c","t">>), "object")

\* Lines 85-114 on the rows of the Orders sheet.  Nothing here is caught
\* locally: a raise leaves load_data through its outer except.
LoadOrders(rows) ==
    LET found == find_header_idx(Preview(rows, OrdersPreviewRows),
                                 << <<"o","r","d","e","r">>,
                                    <<"n","u","m","b","e","r">> >>)
        h == IF found = None THEN OrdersFallback ELSE found
        rd == ReadExcel(rows, h)
        fail == [raised |-> TRUE, df |-> EmptyDF]
    IN  IF rd.raised \/ rd.df.cols = <<>> THEN fail
        ELSE LET ok == FirstCol([k \in 1..Len(Labels(rd.df)) |->
                                    IsOrderNumberLabel(Labels(rd.df)[k])])
                 ord_id_col == IF ok = 0 THEN rd.df.cols[1] ELSE rd.df.cols[ok]
                 df1 == Rename(rd.df, ord_id_col, L_Order_ID)
             IN  IF ~IsSeries(df1, L_Order_ID) THEN fail
                 ELSE LET df2 == SetCol(df1, L_Order_ID,
                                        CanonSeries(Series(df1, L_Order_ID)), "object")
                          df3 == IdentifyProduct(df2)
                          qk == FirstCol([k \in 1..Len(Labels(df3)) |->
                                             IsQuantityLabel(Labels(df3)[k])])
                      IN  IF qk = 0
                          THEN [raised |-> FALSE,
                                df |-> SetConst(df3, L_Quantity, IntCell(0), "int64")]
                          ELSE IF ~IsSeries(df3, df3.cols[qk]) THEN fail
                          ELSE [raised |-> FALSE,
                                df |-> SetCol(df3, L_Quantity,
                                              NumericSeries(Series(df3, df3.cols[qk])),
                                              "float64")]

(***************************************************************************)
(* load_data, part 3: the stock-location sheets                            *)
(***************************************************************************)
\* Fixed header offsets of the two stock sheets
HeaderNL == 1
HeaderEE == 0

IsStockNLName(s) ==
    /\ Contains(<<"s","t","o","c","k","l","i","s","t">>, Lower(s))
    /\ Contains(<<"n","l">>, Lower(s))

IsStockEEName(s) ==
    /\ Contains(<<"s","t","o","c","k","l","i","s","t">>, Lower(s))
    /\ Contains(<<"e","e">>, Lower(s))

\* 'prod' in c.lower() and 'code' in c.lower()
IsProdCodeNL(c) ==
    /\ Contains(<<"p","r","o","d">>, Lower(c))
    /\ Contains(<<"c","o","d","e">>, Lower(c))

\* 'article' in c.lower()
IsArticleEE(c) == Contains(<<"a","r","t","i","c","l","e">>, Lower(c))

StockCols == <<L_Product_Code, L_Stock_Qty, L_Location>>

\* pd.DataFrame(columns=['Product_Code', 'Stock_Qty', 'Location'])
EmptyStock == [cols |-> StockCols, dtypes |-> <<"object", "object", "object">>,
               data |-> <<>>]

\* dtype of a column of pd.concat([a, b]); a frame without rows does not
\* take part in the result dtype
ConcatDtype(d1, n1, d2, n2) ==
    IF n1 = 0 THEN d2
    ELSE IF n2 = 0 THEN d1
    ELSE IF d1 = d2 THEN d1
    ELSE IF d1 \in {"int64", "float64"} /\ d2 \in {"int64", "float64"} THEN "float64"
    ELSE "object"

\* pd.concat([a, b]) of two frames with the same columns
Concat(a, b) ==
    LET dts == [k \in 1..Len(a.cols) |->
                   ConcatDtype(a.dtypes[k], Len(a.data), b.dtypes[k], Len(b.data))]
        rows == a.data \o b.data
    IN  [cols |-> a.cols, dtypes |-> dts,
         data |-> [i \in 1..Len(rows) |->
                     [k \in 1..Len(a.cols) |-> Retype(rows[i][k], dts[k])]]]

\* The body of one location's try block (lines 137-147, 156-166):
\* raised: an exception reached the bare except; loaded: temp was built.
\* loc selects the product-column test: prod_nl for NL, prod_ee for EE.
LoadStock(rows, header, loc) ==
    LET rd == ReadExcel(rows, header)
        none == [raised |-> FALSE, loaded |-> FALSE, temp |-> EmptyStock]
    IN  IF rd.raised THEN [none EXCEPT !.raised = TRUE]
        ELSE LET pk == FirstCol([k \in 1..Len(Labels(rd.df)) |->
                                    IF loc = <<"N","L">>
                                    THEN IsProdCodeNL(Labels(rd.df)[k])
                                    ELSE IsArticleEE(Labels(rd.df)[k])])
                 qk == FirstCol([k \in 1..Len(Labels(rd.df)) |->
                                    IsQuantityLabel(Labels(rd.df)[k])])
             IN  IF pk = 0 \/ qk = 0 THEN none
                 \* df[[prod, qty]] has one column per occurrence of each
                 \* label; temp.columns = [two names] raises on any other count
                 ELSE IF Cardinality(Positions(rd.df, rd.df.cols[pk]))
                           + Cardinality(Positions(rd.df, rd.df.cols[qk])) # 2
                 THEN [none EXCEPT !.raised = TRUE]
                 ELSE [raised |-> FALSE, loaded |-> TRUE,
                       temp |-> [cols |-> StockCols,
                                 dtypes |-> <<rd.df.dtypes[pk], rd.df.dtypes[qk],
                                              "object">>,
                                 data |-> [i \in 1..Len(rd.df.data) |->
                                             << rd.df.data[i][pk],
                                                rd.df.data[i][qk],
                                                StrCell(loc) >>]]]

\* Faulty variant: the product codes stringified but not trimmed
CleanStockNoStrip(stock) ==
    IF stock.data # <<>>
    THEN LET s1 == SetCol(stock, L_Stock_Qty,
                          NumericSeries(Series(stock, L_Stock_Qty)), "float64")
             pc1 == Series(s1, L_Product_Code)
             s2 == SetCol(s1, L_Product_Code,
                          [i \in 1..Len(pc1) |-> StrCell(AsStr(pc1[i]))], "object")
         IN  GroupBySum(s2, L_Product_Code, L_Stock_Qty)
    ELSE [cols |-> <<L_Product_Code, L_Stock_Qty>>,
          dtypes |-> <<"object", "object">>, data |-> <<>>]

\* The "Clean Stock Data" block (lines 171-177)
CleanStock(stock) ==
    IF stock.data # <<>>
    THEN LET s1 == SetCol(stock, L_Stock_Qty,
                          NumericSeries(Series(stock, L_Stock_Qty)), "float64")
             pc1 == Series(s1, L_Product_Code)
             s2 == SetCol(s1, L_Product_Code,
                          [i \in 1..Len(pc1) |-> StrCell(Strip(AsStr(pc1[i])))],
                          "object")
         IN  GroupBySum(s2, L_Product_Code, L_Stock_Qty)
    ELSE [cols |-> <<L_Product_Code, L_Stock_Qty>>,
          dtypes |-> <<"object", "object">>, data |-> <<>>]

(***************************************************************************)
(* main, tab 4: demand vs supply                                           *)
(***************************************************************************)
L_Demand_Qty == <<"D","e","m","a","n","d","_","Q","t","y">>
L_Balance == <<"B","a","l","a","n","c","e">>

\* DataFrame.empty: no rows or no columns
IsEmpty(df) == df.data = <<>> \/ df.cols = <<>>

\* Faulty variant: Balance > 0 in place of Balance >= 0
RiskStatusStrict(balance) == IF balance > 0 THEN "OK" ELSE "SHORTAGE"

\* np.where(Balance >= 0, OK, Shortage)
RiskStatus(balance) == IF balance >= 0 THEN "OK" ELSE "SHORTAGE"

\* One row of df_risk from a product code, its demand and its stock
RiskRow(code, demand, stock) ==
    << code, IntCell(demand), IntCell(stock), IntCell(stock - demand),
       RiskStatus(stock - demand) >>

\* Faulty variant: how='left' in place of how='outer'
OuterRiskLeftOnly(demand, inv) ==
    LET matched == LeftJoin(demand.data, 1, inv)
    IN  [i \in 1..Len(matched) |->
            RiskRow(matched[i][1], FillNa0(matched[i][2]).n,
                    FillNa0(matched[i][3]).n)]

\* pd.merge(df_demand, df_inv, on='Product_Code', how='outer').fillna(0),
\* then Balance and Status.  Rows: demand keys first, then stock-only keys.
OuterRisk(demand, inv) ==
    LET matched == LeftJoin(demand.data, 1, inv)
        onlyInv == SelectIdx([g \in 1..Len(inv.data) |->
                      \A d \in 1..Len(demand.data) :
                          demand.data[d][1] # inv.data[g][1]])
        all == matched \o [j \in 1..Len(onlyInv) |->
                             << inv.data[onlyInv[j]][1], NaN,
                                inv.data[onlyInv[j]][2] >>]
    IN  [i \in 1..Len(all) |->
            RiskRow(all[i][1], FillNa0(all[i][2]).n, FillNa0(all[i][3]).n)]

\* Lines 329-346.  status: "insufficient" (warning shown, no table),
\* "skipped" (no Product_Code column), "raised" (groupby or merge raises,
\* uncaught in main), "computed".
Tab4(details, inv) ==
    LET no(st) == [status |-> st, rows |-> <<>>]
    IN  IF IsEmpty(details) \/ IsEmpty(inv) THEN no("insufficient")
        ELSE IF ~HasCol(details, L_Product_Code) THEN no("skipped")
        ELSE IF ~IsSeries(details, L_Product_Code) THEN no("raised")
        \* merging a numeric key column with a text key column raises
        ELSE IF details.dtypes[Pos(details, L_Product_Code)] \in {"int64", "float64"}
        THEN no("raised")
        ELSE [status |-> "computed",
              rows |-> OuterRisk(GroupBySum(details, L_Product_Code, L_Quantity),
                                 inv)]

(***************************************************************************)
(* The run of one upload: load_data step by step, then main's tab 4        *)
(***************************************************************************)
\* return None, None, None, [messages]
Fatal(msgs) ==
    [none |-> TRUE, df_sop |-> EmptyDF, df_orders_detail |-> EmptyDF,
     df_inventory |-> EmptyDF, logs |-> msgs]

\* except Exception as e: return None, None, None, [f"Fatal Error: ...", traceback]
FatalError == Fatal(<<"Fatal Error", "traceback">>)

NoRet == Fatal(<<>>)

SheetRows(k) == xls[k].rows

\* sheet_names
SheetNames == [k \in 1..Len(xls) |-> xls[k].name]

\* sheet_nl and sheet_ee (0 for None)
SheetNL == FirstSheet([k \in 1..Len(xls) |-> IsStockNLName(SheetNames[k])])
SheetEE == FirstSheet([k \in 1..Len(xls) |-> IsStockEEName(SheetNames[k])])

\* Lines 35-45
LocateMaster ==
    /\ pc = "start"
    /\ sop_sheet' = FirstSheet([k \in 1..Len(xls) |-> IsSopName(SheetNames[k])])
    /\ IF sop_sheet' = 0
       THEN /\ ret' = Fatal(<<"Critical: S&OP sheet not found.">>)
            /\ pc' = "returned"
       ELSE /\ ret' = ret
            /\ pc' = "master"
    /\ UNCHANGED <<xls, found_sop, sop_header, df_sop, df_orders_detail,
                   df_stock_total, df_inventory, logs, df_risk, tab4>>

\* Lines 47-75
LoadMaster ==
    /\ pc = "master"
    /\ LET r == LoadSop(SheetRows(sop_sheet))
       IN  /\ found_sop' = r.found
           /\ sop_header' = r.header
           /\ IF r.raised
              THEN /\ ret' = FatalError
                   /\ pc' = "returned"
                   /\ df_sop' = df_sop
              ELSE /\ ret' = ret
                   /\ pc' = "orders"
                   /\ df_sop' = r.df
    /\ UNCHANGED <<xls, sop_sheet, df_orders_detail, df_stock_total,
                   df_inventory, logs, df_risk, tab4>>

\* Lines 80-125
LoadDetail ==
    /\ pc = "orders"
    /\ LET orders_sheet == FirstSheet([k \in 1..Len(xls) |->
                                         IsOrdersName(SheetNames[k])])
       IN  IF orders_sheet # 0
           THEN LET r == LoadOrders(SheetRows(orders_sheet))
                IN  IF r.raised
                    THEN /\ ret' = FatalError
                         /\ pc' = "returned"
                         /\ UNCHANGED <<df_sop, df_orders_detail>>
                    ELSE /\ ret' = ret
                         /\ pc' = "stock_nl"
                         /\ df_orders_detail' = r.df
                         /\ df_sop' = MergeQty(df_sop, r.df)
           ELSE /\ ret' = ret
                /\ pc' = "stock_nl"
                /\ df_orders_detail' = EmptyDF
                /\ df_sop' = SetConst(df_sop, L_Total_Qty, IntCell(0), "int64")
    /\ UNCHANGED <<xls, sop_sheet, found_sop, sop_header, df_stock_total,
                   df_inventory, logs, df_risk, tab4>>

\* One location's block: if the sheet exists, try to load it; on an
\* exception append the warning
StockStep(k, header, loc, warning) ==
    IF k = 0 THEN UNCHANGED <<df_stock_total, logs>>
    ELSE LET r == LoadStock(SheetRows(k), header, loc)
         IN  /\ df_stock_total' = IF r.loaded THEN Concat(df_stock_total, r.temp)
                                  ELSE df_stock_total
             /\ logs' = IF r.raised THEN Append(logs, warning) ELSE logs

\* Lines 133-149
LoadStockNL ==
    /\ pc = "stock_nl"
    /\ StockStep(SheetNL, HeaderNL, <<"N","L">>,
                 "Warning: Failed to parse Stocklist NL")
    /\ pc' = "stock_ee"
    /\ UNCHANGED <<xls, sop_sheet, found_sop, sop_header, df_sop,
                   df_orders_detail, df_inventory, ret, df_risk, tab4>>

\* Lines 152-168
LoadStockEE ==
    /\ pc = "stock_ee"
    /\ StockStep(SheetEE, HeaderEE, <<"E","E">>,
                 "Warning: Failed to parse Stocklist EE")
    /\ pc' = "clean"
    /\ UNCHANGED <<xls, sop_sheet, found_sop, sop_header, df_sop,
                   df_orders_detail, df_inventory, ret, df_risk, tab4>>

\* Lines 170-179
CleanAndReturn ==
    /\ pc = "clean"
    /\ df_inventory' = CleanStock(df_stock_total)
    /\ ret' = [none |-> FALSE, df_sop |-> df_sop,
               df_orders_detail |-> df_orders_detail,
               df_inventory |-> df_inventory', logs |-> logs]
    /\ pc' = "returned"
    /\ UNCHANGED <<xls, sop_sheet, found_sop, sop_header, df_sop,
                   df_orders_detail, df_stock_total, logs, df_risk, tab4>>

\* main: lines 197-204 (the error branch) and 329-346 (the balance table)
MainTab4 ==
    /\ pc = "returned"
    /\ IF ret.none
       THEN /\ tab4' = "error"
            /\ df_risk' = <<>>
       ELSE LET t == Tab4(ret.df_orders_detail, ret.df_inventory)
            IN  /\ tab4' = t.status
                /\ df_risk' = t.rows
    /\ pc' = "done"
    /\ UNCHANGED <<xls, sop_sheet, found_sop, sop_header, df_sop,
                   df_orders_detail, df_stock_total, df_inventory, logs, ret>>

Next ==
    \/ LocateMaster
    \/ LoadMaster
    \/ LoadDetail
    \/ LoadStockNL
    \/ LoadStockEE
    \/ CleanAndReturn
    \/ MainTab4

\* The state at the entry of load_data, for a set of workbooks
InitWith(workbooks) ==
    /\ xls \in workbooks
    /\ pc = "start"
    /\ sop_sheet = 0
    /\ found_sop = None
    /\ sop_header = None
    /\ df_sop = EmptyDF
    /\ df_orders_detail = EmptyDF
    /\ df_stock_total = EmptyStock
    /\ df_inventory = EmptyDF
    /\ logs = <<>>
    /\ ret = NoRet
    /\ df_risk = <<>>
    /\ tab4 = "none"

(***************************************************************************)
(* Workbooks: the uploads the runs are checked on                          *)
(***************************************************************************)
Sheet(name, rows) == [name |-> name, rows |-> rows]

\* n copies of a row
Fill(n, row) == [i \in 1..n |-> row]

\* All sequences over S of length 0..n
SeqsUpTo(S, n) == UNION {[1..m -> S] : m \in 0..n}

N_SOP == <<"S","&","O","P"," ","2","0","2","4">>
N_Meeting == <<"M","e","e","t","i","n","g">>
N_Orders == <<" ","O","r","d","e","r","s"," ">>
N_StockNL == <<"S","t","o","c","k","l","i","s","t"," ","N","L">>
N_StockEE == <<"S","t","o","c","k","l","i","s","t"," ","E","E">>
N_Other == <<"S","h","e","e","t","1">>

\* Header rows of the master sheet: two that the locator accepts (the
\* second only by case folding and substring), one it does not
HdrSop == << StrCell(<<"P","r","o","f","o","r","m","a"," ","N","o">>), StrCell(<<"S","t","a","t","u","s">>), StrCell(<<"C","o","u","n","t","r","y">>) >>
HdrSopFolded == << StrCell(<<"O","r","d","e","r">>), StrCell(<<"S","T","A","T","U","S">>), StrCell(<<"D","e","s","t","."," ","c","o","u","n","t","r","y">>) >>
HdrSopNoCountry == << StrCell(<<"P","r","o","f","o","r","m","a"," ","N","o">>), StrCell(<<"S","t","a","t","u","s">>), StrCell(<<"R","e","g","i","o","n">>) >>

TitleRow3 == << StrCell(<<"P","l","a","n">>), NaN, NaN >>

\* A master data row with the given identifier cell
SopRow(id) == << id, StrCell(<<"O","n"," ","h","o","l","d"," ">>), StrCell(<<"E","E">>) >>

\* A well-formed master sheet: header at offset 0, one row per identifier
SopSheet(ids) == <<HdrSop>> \o [i \in 1..Len(ids) |-> SopRow(ids[i])]

(***************************************************************************)
(* Shared predicates of the properties                                     *)
(***************************************************************************)
\* load_data got past the master sheet without raising
MasterOK == sop_header # None /\ df_sop.cols # <<>>

\* load_data has returned its (non-fatal) tuple
Returned == pc \in {"returned", "done"} /\ ~ret.none

\* load_data has returned the fatal result
ReturnedFatal == pc \in {"returned", "done"} /\ ret.none

\* The Order_ID texts of a table, row by row
OrderIds(df) ==
    [i \in 1..Len(df.data) |-> df.data[i][Pos(df, L_Order_ID)].s]

(***************************************************************************)
(* SpecCanon: identifier canonicalization on bounded identifiers           *)
(***************************************************************************)
MaxIdLen == 4

CanonAlphabet == {"1", "0", "."}

CanonTexts ==
    (SeqsUpTo(CanonAlphabet, MaxIdLen) \ {<<>>})
      \cup { <<"1","0","0","2">>, <<"1","0","0","2",".","0">>, <<"1","0","0","2",".","0",".","0">> }

\* One master sheet with one identifier: a text cell, a whole number in an
\* int64 column, or a whole number in a float64 column (a blank below it)
CanonWorkbooks ==
    { << Sheet(N_SOP, SopSheet(<<StrCell(x)>>)) >> : x \in CanonTexts }
      \cup { << Sheet(N_SOP, SopSheet(<<IntCell(n)>>)) >> : n \in {10, 1002} }
      \cup { << Sheet(N_SOP, SopSheet(<<IntCell(n), NaN>>)) >> : n \in {10, 1002} }

InitCanon == InitWith(CanonWorkbooks)

SpecCanon == InitCanon /\ [][Next]_vars

\* The identifier of the first data row as the code stringifies it
RawFirstId ==
    LET body == SubSeq(xls[1].rows, 2, Len(xls[1].rows))
        col == Column(body, 1)
    IN  AsStr(Retype(col[1], ColDtype(col)))

\* C3 as claimed: canonicalization is idempotent, canon(canon(x)) = canon(x)
\* for every identifier x -- the Order_ID the code stored is canon(x).
C3_Idempotent ==
    MasterOK => \A i \in 1..Len(df_sop.data) :
                   Canon(OrderIds(df_sop)[i]) = OrderIds(df_sop)[i]

\* C3 amended: the stored Order_ID is x with exactly one trailing ".0"
\* removed, and canonicalizing it again changes nothing exactly when x does
\* not end in ".0.0".
C3_StripsOneSuffix ==
    MasterOK =>
        LET x == RawFirstId
            id == OrderIds(df_sop)[1]
        IN  /\ Len(df_sop.data) = 1
            /\ id = (IF Len(x) >= 2 /\ x[Len(x) - 1] = "." /\ x[Len(x)] = "0"
                     THEN SubSeq(x, 1, Len(x) - 2) ELSE x)
            /\ (Canon(id) = id) <=> ~EndsWith(x, <<".","0",".","0">>)

\* C3 witness: 1002.0 from a float64 column was stored as "1002"
C3_Witness ==
    /\ MasterOK
    /\ RawFirstId = <<"1","0","0","2",".","0">>
    /\ xls[1].rows[2][1].t = "int"
    /\ OrderIds(df_sop) = << <<"1","0","0","2">> >>

(***************************************************************************)
(* SpecMaster: header location and row cleanup of the master sheet         *)
(***************************************************************************)
MaxMasterRows == 2

\* Title rows above the header: none, one, and around the preview window
MasterFills ==
    {0, 1, MasterPreviewRows - 1, MasterPreviewRows, MasterPreviewRows + 1}

MasterHeaders == { <<HdrSop>>, <<HdrSopFolded>>, <<HdrSopNoCountry>>, <<>> }

MasterIdCells ==
    { StrCell(<<"i","n","p","u","t">>), StrCell(<<"F","o","r","m","u","l","a">>), NaN, StrCell(<<"O","R","D","E","R"," ","N","U","M","B","E","R">>), StrCell(<<"P","F","-","1","0","2">>),
      StrCell(<<" ","i","n","p","u","t">>), StrCell(<<"N","A","N">>), IntCell(12) }

\* The identifiers of the garbage-row example
ExampleIds == << StrCell(<<"i","n","p","u","t">>), StrCell(<<"F","o","r","m","u","l","a">>), NaN, StrCell(<<"O","R","D","E","R"," ","N","U","M","B","E","R">>), StrCell(<<"P","F","-","1","0","2">>) >>

MasterIdLists == SeqsUpTo(MasterIdCells, MaxMasterRows) \cup {ExampleIds}

MasterWorkbooks ==
    { << Sheet(name, Fill(n, TitleRow3) \o hdr
                       \o [i \in 1..Len(ids) |-> SopRow(ids[i])]) >> :
        name \in {N_SOP}, n \in MasterFills, hdr \in MasterHeaders,
        ids \in MasterIdLists }
      \cup { << Sheet(N_Other, SopSheet(ExampleIds)) >>,
             << Sheet(N_Other, <<>>), Sheet(N_Meeting, SopSheet(ExampleIds)) >> }

InitMaster == InitWith(MasterWorkbooks)

SpecMaster == InitMaster /\ [][Next]_vars

\* The master sheet was found and its load attempted
MasterTried == sop_sheet # 0 /\ pc \notin {"start", "master"}

\* A row with a cell containing "status" and a cell containing "country",
\* ignoring case
HasStatusAndCountry(row) ==
    /\ \E k \in 1..Len(row) :
          Contains(<<"s","t","a","t","u","s">>, Lower(AsStr(row[k])))
    /\ \E k \in 1..Len(row) :
          Contains(<<"c","o","u","n","t","r","y">>, Lower(AsStr(row[k])))

\* No row among the first 15 rows of the master sheet is a header row
NoHeaderInFirst15 ==
    \A i \in 1..Len(xls[sop_sheet].rows) :
        i <= 15 => ~HasStatusAndCountry(xls[sop_sheet].rows[i])

\* C5 as claimed: with no row among the first 15 containing both "status"
\* and "country", find_header_idx returns None and the master sheet is
\* loaded with header offset 0.
C5_FallbackZero ==
    (MasterTried /\ NoHeaderInFirst15) => (found_sop = None /\ sop_header = 0)

\* C5 amended: in that case find_header_idx returns None and the master
\* sheet is loaded with header offset 1.
C5_FallbackOne ==
    (MasterTried /\ NoHeaderInFirst15) => (found_sop = None /\ sop_header = 1)

\* C5 witness: a header row lies beyond the preview window, the locator
\* returned None and the sheet was loaded at offset 1
C5_Witness ==
    /\ MasterOK
    /\ NoHeaderInFirst15
    /\ \E i \in 1..Len(xls[sop_sheet].rows) :
          HasStatusAndCountry(xls[sop_sheet].rows[i])
    /\ found_sop = None
    /\ sop_header = 1

\* The identifier cells below the header row, as pandas holds them
RawMasterIds ==
    LET rows == xls[sop_sheet].rows
        body == SubSeq(rows, sop_header + 2, Len(rows))
        col == Column(body, Pos(df_sop, L_Order_ID))
    IN  [i \in 1..Len(col) |-> Retype(col[i], ColDtype(col))]

IsValidId(c) ==
    /\ c.t # "nan"
    /\ Lower(AsStr(c)) \notin { <<"i","n","p","u","t">>, <<"f","o","r","m","u","l","a">>, <<"n","a","n">>, <<"o","r","d","e","r"," ","n","u","m","b","e","r">> }

\* C6: right after the master cleanup the surviving rows are exactly the
\* rows whose identifier is present and is not, ignoring case, one of
\* input / formula / nan / order number, in their original order; of the
\* example identifiers only PF-102 survives.
C6_Cleanup ==
    (MasterOK /\ pc = "orders") =>
        LET valid == SelectSeq(RawMasterIds, IsValidId)
        IN  /\ OrderIds(df_sop) = [i \in 1..Len(valid) |-> Canon(AsStr(valid[i]))]
            /\ RawMasterIds = ExampleIds => OrderIds(df_sop) = << <<"P","F","-","1","0","2">> >>

\* C6 witness: the example sheet was cleaned and only PF-102 is left
C6_Witness ==
    /\ MasterOK
    /\ pc = "orders"
    /\ RawMasterIds = ExampleIds
    /\ OrderIds(df_sop) = << <<"P","F","-","1","0","2">> >>

(***************************************************************************)
(* SpecOrders: the Orders sheet and the merge of its totals                *)
(***************************************************************************)
MaxSopRows == 2
MaxOrderRows == 2

HdrOrd == << StrCell(<<"O","r","d","e","r"," ","N","u","m","b","e","r">>), StrCell(<<"A","r","t","i","c","l","e"," ","N","o">>), StrCell(<<"Q","u","a","n","t","i","t","y">>) >>
HdrOrdNoQty == << StrCell(<<"O","r","d","e","r"," ","n","u","m","b","e","r">>), StrCell(<<"S","K","U">>), StrCell(<<"A","m","o","u","n","t">>) >>
HdrSopWithTotal ==
    << StrCell(<<"P","r","o","f","o","r","m","a">>), StrCell(L_Status),
       StrCell(<<"C","o","u","n","t","r","y">>), StrCell(L_Total_Qty) >>

OrdRow(id, qty) == << id, StrCell(<<"P","1">>), qty >>

OrdIdCells == { IntCell(12), StrCell(<<"1","2",".","0">>), StrCell(<<"A">>) }
OrdQtyCells == { IntCell(5), StrCell(<<"x">>) }
OrdRowsSet == { OrdRow(id, qty) : id \in OrdIdCells, qty \in OrdQtyCells }

\* The aggregation example: (A,10), (A,5), (12,3)
ExampleOrders ==
    << HdrOrd, OrdRow(StrCell(<<"A">>), IntCell(10)), OrdRow(StrCell(<<"A">>), IntCell(5)),
       OrdRow(IntCell(12), IntCell(3)) >>

\* Orders sheets the code loads: header in row 0, header below title rows
\* inside or outside the 30-row preview, no quantity column, and a sheet
\* without header that is long enough for the fallback offset
GoodOrders ==
    { <<HdrOrd>> \o rows : rows \in SeqsUpTo(OrdRowsSet, MaxOrderRows) }
      \cup { ExampleOrders,
             <<HdrOrdNoQty>> \o <<OrdRow(IntCell(12), IntCell(5))>> }
      \cup { Fill(n, TitleRow3) \o ExampleOrders :
               n \in {OrdersPreviewRows - 1, OrdersPreviewRows} }
      \cup { Fill(OrdersFallback + 1, TitleRow3) \o <<OrdRow(StrCell(<<"A">>), IntCell(5))>> }

\* Orders sheets that are present but malformed: no cells at all, and
\* no header row with fewer rows than the fallback offset
BadOrders ==
    { <<>>, <<TitleRow3>>, <<TitleRow3, OrdRow(StrCell(<<"A">>), IntCell(5))>> }

SopIdCells == { IntCell(12), StrCell(<<"A">>), NaN }

SopSheets ==
    { SopSheet(ids) : ids \in SeqsUpTo(SopIdCells, MaxSopRows) }
      \cup { <<HdrSopWithTotal,
                << StrCell(<<"A">>), StrCell(<<"O","k">>), NaN, IntCell(99) >> >> }

OrdersWorkbooks ==
    { << Sheet(N_SOP, m) >> : m \in SopSheets }
      \cup { << Sheet(N_SOP, m), Sheet(N_Orders, o) >> :
               m \in SopSheets, o \in GoodOrders \cup BadOrders }
      \cup { << Sheet(N_Other, <<>>), Sheet(N_Orders, ExampleOrders) >> }

InitOrders == InitWith(OrdersWorkbooks)

SpecOrders == InitOrders /\ [][Next]_vars

\* C1 as claimed: a workbook that has a master sheet never ends in the
\* fatal result, whatever its Orders sheet holds.
C1_FatalOnlyWithoutMaster ==
    (pc \in {"returned", "done"} /\ sop_sheet # 0) => ~ret.none

RECURSIVE SetSum(_, _)
SetSum(f, S) ==
    IF S = {} THEN 0
    ELSE LET x == CHOOSE x \in S : TRUE IN f[x] + SetSum(f, S \ {x})

\* The total the detail table holds for an order id
DetailTotal(detail, id) ==
    IF detail.cols = <<>> THEN 0
    ELSE LET ip == Pos(detail, L_Order_ID)
             qp == Pos(detail, L_Quantity)
         IN  SetSum([j \in 1..Len(detail.data) |-> detail.data[j][qp].n],
                    {j \in 1..Len(detail.data) : detail.data[j][ip].s = id})

\* C7: in every non-fatal result each master row's Total_Qty is the sum of
\* Quantity over the detail rows with that row's Order_ID, 0 when there is
\* none (so 0 everywhere when the detail table is empty or absent).
C7_TotalQty ==
    Returned =>
        /\ IsSeries(ret.df_sop, L_Total_Qty)
        /\ \A i \in 1..Len(ret.df_sop.data) :
              ret.df_sop.data[i][Pos(ret.df_sop, L_Total_Qty)]
                = IntCell(DetailTotal(ret.df_orders_detail,
                                      OrderIds(ret.df_sop)[i]))

\* C7 witness: two master rows share the id "12" and both carry the total
\* 10 of two detail rows
C7_Witness ==
    /\ Returned
    /\ OrderIds(ret.df_sop) = << <<"1","2">>, <<"1","2">> >>
    /\ Len(ret.df_orders_detail.data) = 2
    /\ \A i \in 1..2 :
          ret.df_sop.data[i][Pos(ret.df_sop, L_Total_Qty)] = IntCell(10)

(***************************************************************************)
(* SpecStock: the stock sheets and the inventory table                     *)
(***************************************************************************)
MaxStockRows == 2
MaxEERows == 1

TitleRow2 == << StrCell(<<"S","t","o","c","k">>), NaN >>
HdrNL == << StrCell(<<"P","r","o","d",".","c","o","d","e">>), StrCell(<<"Q","u","a","n","t","i","t","y">>) >>
HdrNLNoQty == << StrCell(<<"P","r","o","d",".","c","o","d","e">>), StrCell(<<"A","m","o","u","n","t">>) >>
HdrEE == << StrCell(<<"A","r","t","i","c","l","e"," ","N","o",".">>), StrCell(<<"Q","u","a","n","t","i","t","y">>) >>
HdrEENoArticle == << StrCell(<<"I","t","e","m">>), StrCell(<<"Q","u","a","n","t","i","t","y">>) >>

NLRowsSet ==
    { << StrCell(<<"P","1"," ">>), IntCell(4) >>, << IntCell(7), IntCell(9) >>, << NaN, StrCell(<<"x">>) >> }

EERowsSet == { << StrCell(<<"P","1">>), IntCell(5) >>, << IntCell(7), IntCell(2) >> }

\* NL sheets: well-formed (title row, header at offset 1), then one with a
\* single row (the header offset is past the end) and one without a
\* quantity column
GoodNL == { <<TitleRow2, HdrNL>> \o rows : rows \in SeqsUpTo(NLRowsSet, MaxStockRows) }
BadNL == { <<TitleRow2>>,
           <<TitleRow2, HdrNLNoQty, << StrCell(<<"P","1">>), IntCell(4) >> >> }

GoodEE == { <<HdrEE>> \o rows : rows \in SeqsUpTo(EERowsSet, MaxEERows) }
BadEE == { <<HdrEENoArticle, << StrCell(<<"P","1">>), IntCell(5) >> >> }

\* Optional sheets: each is present or not
Optional(name, sheets) == {<<>>} \cup { <<Sheet(name, r)>> : r \in sheets }

StockWorkbooks ==
    { << Sheet(N_SOP, SopSheet(<< StrCell(<<"A">>) >>)) >> \o o \o nl \o ee :
        o \in Optional(N_Orders, {ExampleOrders}),
        nl \in Optional(N_StockNL, GoodNL \cup BadNL),
        ee \in Optional(N_StockEE, GoodEE \cup BadEE) }
      \cup { << Sheet(N_Other, <<>>) >> }

InitStock == InitWith(StockWorkbooks)

SpecStock == InitStock /\ [][Next]_vars

(***************************************************************************)
(* SpecBalance: demand per product against the inventory table             *)
(***************************************************************************)
MaxDemandRows == 2

DemandRowsSet ==
    { << StrCell(<<"A">>), StrCell(<<"P","1">>), IntCell(5) >>,
      << StrCell(<<"A">>), StrCell(<<" ","P","1">>), IntCell(5) >>,
      << StrCell(<<"A">>), StrCell(<<"7">>), IntCell(5) >>,
      << StrCell(<<"A">>), IntCell(7), IntCell(5) >> }

DemandSheets ==
    { <<HdrOrd>> \o rows : rows \in SeqsUpTo(DemandRowsSet, MaxDemandRows) }

BalanceNL ==
    { <<TitleRow2, HdrNL, << StrCell(<<"P","1"," ">>), IntCell(4) >> >>,
      <<TitleRow2, HdrNL, << IntCell(7), IntCell(9) >>, << NaN, StrCell(<<"x">>) >> >>,
      <<TitleRow2, HdrNL>> }

BalanceEE ==
    { <<HdrEE, << StrCell(<<"P","1">>), IntCell(5) >> >>,
      <<HdrEE, << StrCell(<<"P","1">>), IntCell(1) >>, << IntCell(7), IntCell(2) >> >> }

BalanceWorkbooks ==
    { << Sheet(N_SOP, SopSheet(<< StrCell(<<"A">>) >>)) >> \o o \o nl \o ee :
        o \in Optional(N_Orders, DemandSheets),
        nl \in Optional(N_StockNL, BalanceNL),
        ee \in Optional(N_StockEE, BalanceEE) }
      \cup { << Sheet(N_Other, <<>>) >> }

InitBalance == InitWith(BalanceWorkbooks)

SpecBalance == InitBalance /\ [][Next]_vars

Init == InitCanon \/ InitMaster \/ InitOrders \/ InitStock \/ InitBalance

Spec == Init /\ [][Next]_vars

\* The rows of the k-th sheet, <<>> for k = 0
RowsOf(k) == IF k = 0 THEN <<>> ELSE xls[k].rows

\* The stripped, stringified cells of a header row
LabelsOf(row) == { Strip(AsStr(row[k])) : k \in 1..Len(row) }

\* The NL sheet is present and cannot be loaded: unreadable at header
\* offset 1, or no product-code column, or no quantity column
FailedNL ==
    /\ SheetNL # 0
    /\ LET rows == RowsOf(SheetNL)
       IN  \/ Len(rows) < 2
           \/ \A c \in LabelsOf(rows[2]) : ~IsProdCodeNL(c)
           \/ \A c \in LabelsOf(rows[2]) : ~IsQuantityLabel(c)

\* The same for the EE sheet, header offset 0 and an article column
FailedEE ==
    /\ SheetEE # 0
    /\ LET rows == RowsOf(SheetEE)
       IN  \/ Len(rows) < 1
           \/ \A c \in LabelsOf(rows[1]) : ~IsArticleEE(c)
           \/ \A c \in LabelsOf(rows[1]) : ~IsQuantityLabel(c)

InLogs(w) == \E i \in 1..Len(logs) : logs[i] = w

\* The data rows of the stock sheets that load, NL first
LoadedStockRows ==
    (IF SheetNL # 0 /\ ~FailedNL
     THEN SubSeq(RowsOf(SheetNL), 3, Len(RowsOf(SheetNL))) ELSE <<>>)
    \o (IF SheetEE # 0 /\ ~FailedEE
        THEN SubSeq(RowsOf(SheetEE), 2, Len(RowsOf(SheetEE))) ELSE <<>>)

\* C2 as claimed: a stock sheet that is present and fails to load -- it is
\* unreadable or lacks its product-code or quantity column -- never makes
\* the result fatal and leaves its warning in the returned warnings, and
\* the rows of the other location still reach the stock table.
C2_FailureWarns ==
    (pc \in {"returned", "done"} /\ sop_sheet # 0) =>
        /\ ~ret.none
        /\ FailedNL => InLogs("Warning: Failed to parse Stocklist NL")
        /\ FailedEE => InLogs("Warning: Failed to parse Stocklist EE")
        /\ Len(df_stock_total.data) = Len(LoadedStockRows)

\* The trimmed text of a product-code cell
TrimmedCode(c) == Strip(AsStr(c))

\* C10: the inventory table has exactly one row per distinct trimmed
\* Product_Code of the rows of the loaded stock sheets, whatever their
\* location, and its Stock_Qty is the sum of that product's coerced
\* quantities (non-numeric as 0) over all those rows.
C10_Inventory ==
    Returned =>
        LET inv == ret.df_inventory.data
            st == df_stock_total.data
            raw == LoadedStockRows
        IN  /\ Len(st) = Len(raw)
            /\ \A g, h \in 1..Len(inv) : g # h => inv[g][1] # inv[h][1]
            /\ {inv[g][1] : g \in 1..Len(inv)}
                 = {StrCell(TrimmedCode(st[i][1])) : i \in 1..Len(st)}
            /\ \A g \in 1..Len(inv) :
                  inv[g][2] = IntCell(SetSum([i \in 1..Len(raw) |-> ToNumeric(raw[i][2])],
                                             {i \in 1..Len(st) :
                                                TrimmedCode(st[i][1]) = inv[g][1].s}))

\* C10 witness: P1 is stocked at NL (as "P1 ", 4) and at EE (5) and the
\* inventory table holds the single row (P1, 9)
C10_Witness ==
    /\ Returned
    /\ \E i, j \in 1..Len(df_stock_total.data) :
          /\ df_stock_total.data[i][3] = StrCell(<<"N","L">>)
          /\ df_stock_total.data[j][3] = StrCell(<<"E","E">>)
          /\ TrimmedCode(df_stock_total.data[i][1]) = <<"P","1">>
          /\ TrimmedCode(df_stock_total.data[j][1]) = <<"P","1">>
    /\ \E g \in 1..Len(ret.df_inventory.data) :
          ret.df_inventory.data[g] = << StrCell(<<"P","1">>), IntCell(9) >>

\* C8: in every computed balance table each row has
\* Balance = Stock_Qty - Demand_Qty and is SHORTAGE exactly when
\* Balance < 0, OK otherwise.
C8_BalanceSign ==
    tab4 = "computed" =>
        \A i \in 1..Len(df_risk) :
            /\ df_risk[i][4].n = df_risk[i][3].n - df_risk[i][2].n
            /\ df_risk[i][5] \in {"OK", "SHORTAGE"}
            /\ df_risk[i][5] = "SHORTAGE" <=> df_risk[i][4].n < 0

\* C8 witness: a table with a row at Balance 0 (OK) and a row in shortage
C8_Witness ==
    /\ tab4 = "computed"
    /\ \E i \in 1..Len(df_risk) : df_risk[i][4].n = 0 /\ df_risk[i][5] = "OK"
    /\ \E i \in 1..Len(df_risk) : df_risk[i][4].n < 0 /\ df_risk[i][5] = "SHORTAGE"

\* The distinct product codes of the demand side (blank codes form no group)
DemandKeys ==
    IF ~HasCol(ret.df_orders_detail, L_Product_Code) THEN {}
    ELSE LET d == ret.df_orders_detail
         IN  {d.data[i][Pos(d, L_Product_Code)] : i \in 1..Len(d.data)} \ {NaN}

InventoryKeys == {ret.df_inventory.data[g][1] : g \in 1..Len(ret.df_inventory.data)}

RiskKeys == {df_risk[i][1] : i \in 1..Len(df_risk)}

\* Demand and stock of a product code in the returned tables, 0 if absent
DemandOf(code) ==
    LET d == ret.df_orders_detail
    IN  SetSum([i \in 1..Len(d.data) |-> d.data[i][Pos(d, L_Quantity)].n],
               {i \in 1..Len(d.data) : d.data[i][Pos(d, L_Product_Code)] = code})

StockOf(code) ==
    LET inv == ret.df_inventory.data
    IN  SetSum([g \in 1..Len(inv) |-> inv[g][2].n],
               {g \in 1..Len(inv) : inv[g][1] = code})

OneRowPerKey ==
    /\ RiskKeys = DemandKeys \cup InventoryKeys
    /\ Len(df_risk) = Cardinality(RiskKeys)
    /\ \A i \in 1..Len(df_risk) :
          /\ df_risk[i][2].n = (IF df_risk[i][1] \in DemandKeys
                                THEN DemandOf(df_risk[i][1]) ELSE 0)
          /\ df_risk[i][3].n = StockOf(df_risk[i][1])

CanonKey(c) == Canon(Strip(AsStr(c)))

\* C4 as claimed: both joins canonicalize the key alike on both sides.
\* Master vs detail: a detail row whose canonical Order_ID equals a master
\* row's is counted in that row's Total_Qty.  Demand vs stock: in a computed
\* balance table two keys with the same canonical form share one row, so
\* no two rows carry keys with the same canonical form.
C4_SameKeysJoin ==
    (pc = "done" /\ ~ret.none) =>
        /\ \A i \in 1..Len(ret.df_sop.data) :
              ret.df_sop.data[i][Pos(ret.df_sop, L_Total_Qty)].n
                = DetailTotal(ret.df_orders_detail, OrderIds(ret.df_sop)[i])
        /\ tab4 = "computed" =>
              \A i, j \in 1..Len(df_risk) :
                  i # j => CanonKey(df_risk[i][1]) # CanonKey(df_risk[j][1])

====
